---- MODULE Spec2Model ----
(***************************************************************************)
(* SudokuCreator (src/src/main.rs): the full-grid generator, the transform *)
(* engine, the constraint checker, the solver and the puzzle carver.       *)
(*                                                                         *)
(* A grid (Vec<Vec<i32>>) is a function from the row index 0..8 to a       *)
(* function from the column index 0..8 to the cell's value: sudoku[r][c]. *)
(* A Vec<i32> a helper returns is a sequence (1-based).  A location is the *)
(* pair <<column, row>>, as get_all_empty_fields pushes it.                *)
(***************************************************************************)
EXTENDS Integers, Sequences, FiniteSets

VARIABLES
    \* generate_full_sudoku and the transform engine
    sudoku,          \* the grid being generated or transformed
    numbers,         \* the shuffled 1..9 (index 0..8)
    gpc,             \* position in generate_full_sudoku
    gband,           \* which of the three flip_rows / flip_columns calls
    gk,              \* loop counter of the current call
    rot_num,         \* random_rotate's draw (-1 before it)
    tlast,           \* the single transform applied last ("none" before any)
    \* solve_sudoku
    sudoku_check,    \* the caller's grid
    sudoku_to_solve, \* the solver's clone
    all_empty_loc,   \* the empty-cell list of the running loop
    scan_j,          \* index into all_empty_loc of the propagation pass
    found,           \* the pass's flag
    i,               \* the backtracking cursor
    spc,             \* position in solve_sudoku
    solved,          \* the verdict
    run,             \* which call on the same input (1 or 2)
    first_solved,    \* the verdict of the first call
    \* generate_sudoku_to_solve
    filled_sudoku,   \* the caller's filled grid
    carved,          \* the carver's clone (sudoku_to_solve in the code)
    num_to_delete,
    num_deleted,
    xco, yco, old_val,
    cpc,             \* position in generate_sudoku_to_solve
    attempt_from,    \* history: the working grid before the removal under test
    \* single calls of the pure helpers
    pgrid, pxco, pyco, pvec, pres, ppc

vars == <<sudoku, numbers, gpc, gband, gk, rot_num, tlast,
          sudoku_check, sudoku_to_solve, all_empty_loc, scan_j, found, i, spc,
          solved, run, first_solved,
          filled_sudoku, carved, num_to_delete, num_deleted, xco, yco, old_val, cpc,
          attempt_from,
          pgrid, pxco, pyco, pvec, pres, ppc>>

genVars   == <<sudoku, numbers, gpc, gband, gk, rot_num, tlast>>
solveVars == <<sudoku_check, sudoku_to_solve, all_empty_loc, scan_j, found, i, spc,
               solved, run, first_solved>>
carveVars == <<filled_sudoku, carved, num_to_delete, num_deleted, xco, yco, old_val, cpc,
               attempt_from>>
pureVars  == <<pgrid, pxco, pyco, pvec, pres, ppc>>

----------------------------------------------------------------------------
(* Program constants *)

\* width and height of the sudoku: main calls generate_full_sudoku(9, 9)
N == 9
\* side of a subgrid: get_subgrid_coor divides and multiplies by 3
SubSize == 3
\* number_of_attempts of flip_rows / flip_columns and the 0..5 loops
NumAttempts == 5

Idx == 0 .. (N - 1)

\* vec![vec![0; width]; height]
ZeroGrid == [r \in Idx |-> [c \in Idx |-> 0]]

----------------------------------------------------------------------------
(* Random sources *)

\* rng.gen_range(range): any number of the half-open range lo..hi
generate_random_number(lo, hi) == lo .. (hi - 1)

\* two different numbers of the half-open range lo..hi
generate_two_unique_random_numbers(lo, hi) ==
    { p \in (lo .. (hi - 1)) \X (lo .. (hi - 1)) : p[1] # p[2] }

----------------------------------------------------------------------------
(* Transform engine *)

\* numbers written into row row_index, starting at column column_offset and
\* wrapping at 9
fill_row(s, nums, row_index, column_offset) ==
    LET idx(k) == IF k + column_offset >= 9 THEN k + column_offset - 9
                  ELSE k + column_offset
    IN  [s EXCEPT ![row_index] =
            [c \in Idx |-> IF \E k \in DOMAIN nums : idx(k) = c
                           THEN nums[CHOOSE k \in DOMAIN nums : idx(k) = c]
                           ELSE @[c]]]

\* element by element exchange of two rows
flip_row(s, row_idx1, row_idx2) ==
    [s EXCEPT ![row_idx1] = [c \in DOMAIN s[row_idx1] |-> s[row_idx2][c]],
              ![row_idx2] = [c \in DOMAIN s[row_idx1] |->
                                IF row_idx1 = row_idx2 THEN s[row_idx2][c]
                                ELSE s[row_idx1][c]]]

\* flip_column without its temp: the first column is overwritten before it is
\* copied
flip_column_lost_temp(s, column_idx1, column_idx2) ==
    [r \in DOMAIN s |-> [s[r] EXCEPT ![column_idx1] = s[r][column_idx2]]]

\* element by element exchange of two columns
flip_column(s, column_idx1, column_idx2) ==
    [r \in DOMAIN s |->
        [s[r] EXCEPT ![column_idx1] = s[r][column_idx2],
                     ![column_idx2] = s[r][column_idx1]]]

\* the three rows (columns) of each band, as flip_grid_rows lists them
vector_of_vectors == [b \in 0 .. 2 |-> [k \in 0 .. 2 |-> SubSize * b + k]]

\* one pass of flip_grid_rows' loop body: the bands' rows exchanged index for index
flip_grid_rows_once(s, b1, b2) ==
    flip_row(flip_row(flip_row(s,
        vector_of_vectors[b1][0], vector_of_vectors[b2][0]),
        vector_of_vectors[b1][1], vector_of_vectors[b2][1]),
        vector_of_vectors[b1][2], vector_of_vectors[b2][2])

\* one pass of flip_grid_columns' loop body
flip_grid_columns_once(s, b1, b2) ==
    flip_column(flip_column(flip_column(s,
        vector_of_vectors[b1][0], vector_of_vectors[b2][0]),
        vector_of_vectors[b1][1], vector_of_vectors[b2][1]),
        vector_of_vectors[b1][2], vector_of_vectors[b2][2])

\* rotated_sudoku[j][n - 1 - i] = sudoku[i][j]
rotate_90_degrees(s) ==
    [a \in Idx |-> [b \in Idx |-> s[N - 1 - b][a]]]

\* rotated_sudoku[n - 1 - i][m - 1 - j] = sudoku[i][j]
rotate_180_degrees(s) ==
    [a \in Idx |-> [b \in Idx |-> s[N - 1 - a][N - 1 - b]]]

\* rotated_sudoku[m - 1 - j][i] = sudoku[i][j]
rotate_270_degrees(s) ==
    [a \in Idx |-> [b \in Idx |-> s[b][N - 1 - a]]]

\* the branch of random_rotate taken for the drawn number
rotate_by(s, r) ==
    IF r = 1 THEN rotate_90_degrees(s)
    ELSE IF r = 2 THEN rotate_180_degrees(s)
    ELSE IF r = 3 THEN rotate_270_degrees(s)
    ELSE s

----------------------------------------------------------------------------
(* Geometry and constraint checker *)

get_column(s, column_idx) == [k \in 1 .. N |-> s[k - 1][column_idx]]

get_row(s, row_idx) == [k \in 1 .. N |-> s[row_idx][k - 1]]

\* rows row_idx1..row_idx2 (exclusive), columns column_idx1..column_idx2
\* (exclusive), row by row
get_subgrid(s, row_idx1, row_idx2, column_idx1, column_idx2) ==
    LET w == column_idx2 - column_idx1
        h == row_idx2 - row_idx1
    IN  [k \in 1 .. (h * w) |->
            s[row_idx1 + ((k - 1) \div w)][column_idx1 + ((k - 1) % w)]]

\* is_vec_valid without its num != 0 test: two zeros count as a duplicate
is_vec_valid_zero_counts(vec) ==
    \A a, b \in DOMAIN vec : a < b => vec[a] # vec[b]

\* no two equal non-zero entries
is_vec_valid(vec) ==
    \A a, b \in DOMAIN vec : (a < b /\ vec[a] # 0) => vec[a] # vec[b]

\* (x1, y1, x2, y2): x from the column coordinate, y from the row coordinate
get_subgrid_coor(x, y) ==
    LET x1 == (x \div SubSize) * SubSize
        y1 == (y \div SubSize) * SubSize
    IN  <<x1, y1, x1 + SubSize, y1 + SubSize>>

\* get_subgrid is called with (coor.0, coor.2, coor.1, coor.3): the x bounds
\* as its rows and the y bounds as its columns
is_loc_valid(s, x, y) ==
    LET row == get_row(s, y)
        column == get_column(s, x)
        coor == get_subgrid_coor(x, y)
        subgrid == get_subgrid(s, coor[1], coor[3], coor[2], coor[4])
    IN  is_vec_valid(row) /\ is_vec_valid(column) /\ is_vec_valid(subgrid)

Range(vec) == { vec[k] : k \in DOMAIN vec }

OneToNine == [k \in 1 .. 9 |-> k]

\* find_missing_numbers with the last entry of the vector never collected
find_missing_numbers_skips_last(vec) ==
    LET absent(n) == n \notin { vec[k] : k \in 1 .. (Len(vec) - 1) } \ {0}
    IN  SelectSeq(OneToNine, absent)

\* (1..=9) filtered by absence from the vector, in ascending order
find_missing_numbers(vec) ==
    LET absent(n) == n \notin { v \in Range(vec) : v # 0 }
    IN  SelectSeq(OneToNine, absent)

\* common_numbers without its second intersection
common_numbers_of_two(vec1, vec2, vec3) ==
    Range(vec1) \cap Range(vec2)

\* the intersection of the three vectors; the code returns it as a Vec in the
\* HashSet's arbitrary order, so the model keeps the set and leaves the order
\* to the reader of the result
common_numbers(vec1, vec2, vec3) ==
    (Range(vec1) \cap Range(vec2)) \cap Range(vec3)

\* get_all_missing_numbers with the subgrid taken as is_loc_valid takes it:
\* the x bounds as rows and the y bounds as columns
get_all_missing_numbers_swapped(s, x, y) ==
    LET row == get_row(s, y)
        column == get_column(s, x)
        coor == get_subgrid_coor(x, y)
        subgrid == get_subgrid(s, coor[1], coor[3], coor[2], coor[4])
    IN  common_numbers(find_missing_numbers(row),
                       find_missing_numbers(column),
                       find_missing_numbers(subgrid))

\* here get_subgrid is called with (coor.1, coor.3, coor.0, coor.2): the y
\* bounds as its rows and the x bounds as its columns
get_all_missing_numbers(s, x, y) ==
    LET row == get_row(s, y)
        column == get_column(s, x)
        coor == get_subgrid_coor(x, y)
        subgrid == get_subgrid(s, coor[2], coor[4], coor[1], coor[3])
    IN  common_numbers(find_missing_numbers(row),
                       find_missing_numbers(column),
                       find_missing_numbers(subgrid))

\* the <<column, row>> of every zero cell, rows outer, columns inner
get_all_empty_fields(s) ==
    LET cell(k) == <<(k - 1) % N, (k - 1) \div N>>
        isEmpty(k) == s[(k - 1) \div N][(k - 1) % N] = 0
        ks == SelectSeq([k \in 1 .. (N * N) |-> k], isEmpty)
    IN  [k \in DOMAIN ks |-> cell(ks[k])]

\* sqrt(m) of num::integer::sqrt: the integer square root
isqrt(m) == CHOOSE q \in 0 .. m : q * q <= m /\ (q + 1) * (q + 1) > m

check_if_sudoku_solved(s) ==
    /\ Len(get_all_empty_fields(s)) = 0
    /\ \A r \in Idx : \A num \in 1 .. 9 : num \in Range(get_row(s, r))
    /\ \A c \in Idx : \A num \in 1 .. 9 : num \in Range(get_column(s, c))
    /\ \A bi \in 0 .. (isqrt(N) - 1) : \A bj \in 0 .. (isqrt(N) - 1) :
          \A num \in 1 .. 9 :
             num \in Range(get_subgrid(s, bi * 3, (bi + 1) * 3, bj * 3, (bj + 1) * 3))

----------------------------------------------------------------------------
(* Bounds of the model *)

\* numbers.shuffle: the shuffles that exchange the first number with one of
\* the first MaxShuffled numbers
MaxShuffled == 3
\* the transform engine is followed for this many single transforms
MaxTransforms == 2

----------------------------------------------------------------------------
(* The parts of the state a specification does not use *)

GenIdle ==
    /\ sudoku = ZeroGrid /\ numbers = [k \in Idx |-> k + 1]
    /\ gpc = "idle" /\ gband = 0 /\ gk = 0 /\ rot_num = -1 /\ tlast = "none"

SolveIdle ==
    /\ sudoku_check = ZeroGrid /\ sudoku_to_solve = ZeroGrid
    /\ all_empty_loc = <<>> /\ scan_j = 0 /\ found = FALSE /\ i = -1
    /\ spc = "idle" /\ solved = FALSE /\ run = 1 /\ first_solved = FALSE

CarveIdle ==
    /\ filled_sudoku = ZeroGrid /\ carved = ZeroGrid
    /\ num_to_delete = 0 /\ num_deleted = 0
    /\ xco = 0 /\ yco = 0 /\ old_val = 0 /\ cpc = "idle"
    /\ attempt_from = ZeroGrid

PureIdle ==
    /\ pgrid = ZeroGrid /\ pxco = 0 /\ pyco = 0 /\ pvec = <<>>
    /\ pres = FALSE /\ ppc = "idle"

----------------------------------------------------------------------------
(* generate_full_sudoku *)

\* (1..10).collect() shuffled: a permutation of 1..9, here one that leaves the
\* numbers in order or exchanges the first with one of the first MaxShuffled
Shuffles ==
    { [k \in Idx |-> IF k = 0 THEN j + 1 ELSE IF k = j THEN 1 ELSE k + 1] :
         j \in 0 .. (MaxShuffled - 1) }

\* the offsets stepping by 3 in every band, without the step of 1 from band
\* to band
FillOffsetsNoBandStep == <<0, 3, 6, 0, 3, 6, 0, 3, 6>>

\* the column offsets of the nine fill_row calls, rows 0 to 8
FillOffsets == <<0, 3, 6, 1, 4, 7, 2, 5, 8>>

\* the state after the grid is allocated and the numbers are shuffled
InitGen ==
    /\ sudoku = ZeroGrid
    /\ numbers \in Shuffles
    /\ gpc = "fill" /\ gband = 0 /\ gk = 0 /\ rot_num = -1 /\ tlast = "none"
    /\ SolveIdle /\ CarveIdle /\ PureIdle

\* the next of the nine fill_row calls
FillRow ==
    /\ gpc = "fill"
    /\ sudoku' = fill_row(sudoku, numbers, gk, FillOffsets[gk + 1])
    /\ IF gk = N - 1
       THEN gpc' = "flip_all_rows" /\ gk' = 0
       ELSE gpc' = gpc /\ gk' = gk + 1
    /\ UNCHANGED <<numbers, gband, rot_num, tlast>>
    /\ UNCHANGED <<solveVars, carveVars, pureVars>>

\* what follows one pass of a five-pass loop of flip_all_rows / flip_all_columns:
\* the next pass, the next band's call, or the next function
NextOfBandLoop(after) ==
    IF gk + 1 < NumAttempts
    THEN gpc' = gpc /\ gband' = gband /\ gk' = gk + 1
    ELSE IF gband < 2
         THEN gpc' = gpc /\ gband' = gband + 1 /\ gk' = 0
         ELSE gpc' = after /\ gband' = 0 /\ gk' = 0

\* one pass of flip_rows(sudoku, 5, 3 * gband, 3 * gband + 2)
FlipRows ==
    /\ gpc = "flip_all_rows"
    /\ \E p \in generate_two_unique_random_numbers(SubSize * gband,
                                                   (SubSize * gband + 2) + 1) :
          sudoku' = flip_row(sudoku, p[1], p[2])
    /\ NextOfBandLoop("flip_all_columns")
    /\ UNCHANGED <<numbers, rot_num, tlast>>
    /\ UNCHANGED <<solveVars, carveVars, pureVars>>

\* one pass of flip_columns(sudoku, 5, 3 * gband, 3 * gband + 2)
FlipColumns ==
    /\ gpc = "flip_all_columns"
    /\ \E p \in generate_two_unique_random_numbers(SubSize * gband,
                                                   (SubSize * gband + 2) + 1) :
          sudoku' = flip_column(sudoku, p[1], p[2])
    /\ NextOfBandLoop("flip_grid_rows")
    /\ UNCHANGED <<numbers, rot_num, tlast>>
    /\ UNCHANGED <<solveVars, carveVars, pureVars>>

\* one pass of flip_grid_rows' loop
FlipGridRows ==
    /\ gpc = "flip_grid_rows"
    /\ \E p \in generate_two_unique_random_numbers(0, 3) :
          sudoku' = flip_grid_rows_once(sudoku, p[1], p[2])
    /\ IF gk + 1 < NumAttempts
       THEN gpc' = gpc /\ gk' = gk + 1
       ELSE gpc' = "flip_grid_columns" /\ gk' = 0
    /\ UNCHANGED <<numbers, gband, rot_num, tlast>>
    /\ UNCHANGED <<solveVars, carveVars, pureVars>>

\* one pass of flip_grid_columns' loop
FlipGridColumns ==
    /\ gpc = "flip_grid_columns"
    /\ \E p \in generate_two_unique_random_numbers(0, 3) :
          sudoku' = flip_grid_columns_once(sudoku, p[1], p[2])
    /\ IF gk + 1 < NumAttempts
       THEN gpc' = gpc /\ gk' = gk + 1
       ELSE gpc' = "random_rotate" /\ gk' = 0
    /\ UNCHANGED <<numbers, gband, rot_num, tlast>>
    /\ UNCHANGED <<solveVars, carveVars, pureVars>>

\* random_rotate: rot_num drawn from generate_random_number(0..3)
RandomRotate ==
    /\ gpc = "random_rotate"
    /\ \E r \in generate_random_number(0, 3) :
          /\ rot_num' = r
          /\ sudoku' = rotate_by(sudoku, r)
    /\ gpc' = "done"
    /\ UNCHANGED <<numbers, gband, gk, tlast>>
    /\ UNCHANGED <<solveVars, carveVars, pureVars>>

NextGen ==
    \/ FillRow
    \/ FlipRows
    \/ FlipColumns
    \/ FlipGridRows
    \/ FlipGridColumns
    \/ RandomRotate

SpecGen == InitGen /\ [][NextGen]_vars

----------------------------------------------------------------------------
(* The transform engine, one transform at a time *)

\* the grid the nine fill_row calls build from a shuffle
SeedGrid(nums) ==
    LET F[r \in 0 .. N] ==
            IF r = 0 THEN ZeroGrid
            ELSE fill_row(F[r - 1], nums, r - 1, FillOffsets[r])
    IN  F[N]

\* valid filled grids the transforms start from
InitTransform ==
    /\ sudoku \in { SeedGrid(nums) : nums \in Shuffles }
    /\ numbers = [k \in Idx |-> k + 1]
    /\ gpc = "transform" /\ gband = 0 /\ gk = 0 /\ rot_num = -1 /\ tlast = "none"
    /\ SolveIdle /\ CarveIdle /\ PureIdle

TransformFrame ==
    /\ gpc = "transform"
    /\ gk < MaxTransforms
    /\ gk' = gk + 1
    /\ UNCHANGED <<numbers, gpc, gband, rot_num>>
    /\ UNCHANGED <<solveVars, carveVars, pureVars>>

\* flip_row on two rows of one band, as flip_rows calls it
TFlipRow ==
    /\ TransformFrame
    /\ \E b \in 0 .. 2 :
         \E p \in generate_two_unique_random_numbers(SubSize * b, (SubSize * b + 2) + 1) :
            sudoku' = flip_row(sudoku, p[1], p[2])
    /\ tlast' = "flip_row"

\* flip_column on two columns of one band, as flip_columns calls it
TFlipColumn ==
    /\ TransformFrame
    /\ \E b \in 0 .. 2 :
         \E p \in generate_two_unique_random_numbers(SubSize * b, (SubSize * b + 2) + 1) :
            sudoku' = flip_column(sudoku, p[1], p[2])
    /\ tlast' = "flip_column"

\* two row bands exchanged index for index
TFlipGridRows ==
    /\ TransformFrame
    /\ \E p \in generate_two_unique_random_numbers(0, 3) :
          sudoku' = flip_grid_rows_once(sudoku, p[1], p[2])
    /\ tlast' = "flip_grid_rows"

\* two column bands exchanged index for index
TFlipGridColumns ==
    /\ TransformFrame
    /\ \E p \in generate_two_unique_random_numbers(0, 3) :
          sudoku' = flip_grid_columns_once(sudoku, p[1], p[2])
    /\ tlast' = "flip_grid_columns"

TRotate90 ==
    /\ TransformFrame
    /\ sudoku' = rotate_90_degrees(sudoku)
    /\ tlast' = "rotate_90_degrees"

TRotate180 ==
    /\ TransformFrame
    /\ sudoku' = rotate_180_degrees(sudoku)
    /\ tlast' = "rotate_180_degrees"

TRotate270 ==
    /\ TransformFrame
    /\ sudoku' = rotate_270_degrees(sudoku)
    /\ tlast' = "rotate_270_degrees"

NextTransform ==
    \/ TFlipRow
    \/ TFlipColumn
    \/ TFlipGridRows
    \/ TFlipGridColumns
    \/ TRotate90
    \/ TRotate180
    \/ TRotate270

SpecTransform == InitTransform /\ [][NextTransform]_vars

----------------------------------------------------------------------------
(* solve_sudoku *)

\* the test as len() >= 1: a cell with several candidates is filled too
naked_single_or_more(missing) == Cardinality(missing) >= 1

\* all_missing_numbers.len() == 1
naked_single(missing) == Cardinality(missing) = 1

\* let mut sudoku_to_solve = sudoku_check.clone()
SolveClone ==
    /\ spc = "clone"
    /\ sudoku_to_solve' = sudoku_check
    /\ spc' = "pass"
    /\ UNCHANGED <<sudoku_check, all_empty_loc, scan_j, found, i, solved, run, first_solved>>
    /\ UNCHANGED <<genVars, carveVars, pureVars>>

\* the head of the propagation loop: found = false and the empty cells listed
PassBegin ==
    /\ spc = "pass"
    /\ found' = FALSE
    /\ all_empty_loc' = get_all_empty_fields(sudoku_to_solve)
    /\ scan_j' = 0
    /\ spc' = "scan"
    /\ UNCHANGED <<sudoku_check, sudoku_to_solve, i, solved, run, first_solved>>
    /\ UNCHANGED <<genVars, carveVars, pureVars>>

\* one cell of the pass.  all_missing_numbers[0] is the first element of a Vec
\* in arbitrary order: any element of the set
ScanCell ==
    /\ spc = "scan"
    /\ scan_j < Len(all_empty_loc)
    /\ LET loc == all_empty_loc[scan_j + 1]
           all_missing_numbers == get_all_missing_numbers(sudoku_to_solve, loc[1], loc[2])
       IN  IF sudoku_to_solve[loc[2]][loc[1]] = 0 /\ naked_single(all_missing_numbers)
           THEN \E first \in all_missing_numbers :
                   /\ sudoku_to_solve' = [sudoku_to_solve EXCEPT ![loc[2]][loc[1]] = first]
                   /\ found' = TRUE
           ELSE UNCHANGED <<sudoku_to_solve, found>>
    /\ scan_j' = scan_j + 1
    /\ UNCHANGED <<sudoku_check, all_empty_loc, i, spc, solved, run, first_solved>>
    /\ UNCHANGED <<genVars, carveVars, pureVars>>

\* the end of the pass with the test of found inverted: the loop is left after
\* a pass that filled a cell and repeated after one that filled none
PassEndInverted ==
    /\ spc = "scan"
    /\ scan_j >= Len(all_empty_loc)
    /\ spc' = IF found THEN "clear" ELSE "pass"
    /\ UNCHANGED <<sudoku_check, sudoku_to_solve, all_empty_loc, scan_j, found, i,
                   solved, run, first_solved>>
    /\ UNCHANGED <<genVars, carveVars, pureVars>>

\* the end of the pass: break when nothing was found, else another pass
PassEnd ==
    /\ spc = "scan"
    /\ scan_j >= Len(all_empty_loc)
    /\ spc' = IF ~found THEN "clear" ELSE "pass"
    /\ UNCHANGED <<sudoku_check, sudoku_to_solve, all_empty_loc, scan_j, found, i,
                   solved, run, first_solved>>
    /\ UNCHANGED <<genVars, carveVars, pureVars>>

\* sudoku_to_solve[0][0] = 0, the empty cells listed again, and the test
\* whether the backtracking loop is entered (i = -1)
ClearFirst ==
    /\ spc = "clear"
    /\ LET cleared == [sudoku_to_solve EXCEPT ![0][0] = 0]
       IN  /\ sudoku_to_solve' = cleared
           /\ all_empty_loc' = get_all_empty_fields(cleared)
           /\ spc' = IF Len(get_all_empty_fields(cleared)) > 0 THEN "search" ELSE "check"
    /\ i' = -1
    /\ UNCHANGED <<sudoku_check, scan_j, found, solved, run, first_solved>>
    /\ UNCHANGED <<genVars, carveVars, pureVars>>

\* the exit test with > for >=: the loop goes on from the last empty cell
AfterStepPastLast(cursor) ==
    IF cursor > Len(all_empty_loc) - 1 THEN "check" ELSE "search"

\* where the backtracking loop goes after its body: break when
\* i >= all_empty_loc.len() - 1
AfterStep(cursor) ==
    IF cursor >= Len(all_empty_loc) - 1 THEN "check" ELSE "search"

\* one pass of the backtracking loop.  Indexing all_empty_loc outside its
\* bounds panics.
BacktrackStep ==
    /\ spc = "search"
    /\ LET i1 == i + 1
       IN  IF i1 < 0 \/ i1 >= Len(all_empty_loc)
           THEN /\ i' = i1
                /\ spc' = "panic"
                /\ UNCHANGED sudoku_to_solve
           ELSE LET xloc == all_empty_loc[i1 + 1][1]
                    yloc == all_empty_loc[i1 + 1][2]
                    var_check == sudoku_to_solve[yloc][xloc]
                IN  IF var_check = 9
                    THEN /\ sudoku_to_solve' = [sudoku_to_solve EXCEPT ![yloc][xloc] = 0]
                         /\ i' = i1 - 2
                         /\ spc' = IF i1 - 2 < -1 THEN "check" ELSE AfterStep(i1 - 2)
                    ELSE LET stepped == [sudoku_to_solve EXCEPT ![yloc][xloc] = @ + 1]
                             valid == is_loc_valid(stepped, xloc, yloc)
                             i2 == IF ~valid THEN i1 - 1 ELSE i1
                         IN  /\ sudoku_to_solve' = stepped
                             /\ i' = i2
                             /\ spc' = AfterStep(i2)
    /\ UNCHANGED <<sudoku_check, all_empty_loc, scan_j, found, solved, run, first_solved>>
    /\ UNCHANGED <<genVars, carveVars, pureVars>>

\* let solved = check_if_sudoku_solved(&sudoku_to_solve); solved
FinalCheck ==
    /\ spc = "check"
    /\ solved' = check_if_sudoku_solved(sudoku_to_solve)
    /\ spc' = "done"
    /\ UNCHANGED <<sudoku_check, sudoku_to_solve, all_empty_loc, scan_j, found, i,
                   run, first_solved>>
    /\ UNCHANGED <<genVars, carveVars, pureVars>>

\* a second call of solve_sudoku on the same grid, the first verdict kept
SolveAgain ==
    /\ spc = "done" /\ cpc = "idle" /\ run = 1
    /\ first_solved' = solved
    /\ run' = 2
    /\ spc' = "clone"
    /\ UNCHANGED <<sudoku_check, sudoku_to_solve, all_empty_loc, scan_j, found, i, solved>>
    /\ UNCHANGED <<genVars, carveVars, pureVars>>

----------------------------------------------------------------------------
(* The grids solve_sudoku is called on *)

\* the grids of the solver's inputs have the cells of rows 0..PoolRows-1 in
\* columns 0, 3 and 6 blanked in every combination
PoolRows == 2

\* the example grid of print_sudoku's documentation
ReferenceGrid ==
    LET rows == << <<5, 3, 0, 0, 7, 0, 0, 0, 0>>,
                   <<6, 0, 0, 1, 9, 5, 0, 0, 0>>,
                   <<0, 9, 8, 0, 0, 0, 0, 6, 0>>,
                   <<8, 0, 0, 0, 6, 0, 0, 0, 3>>,
                   <<4, 0, 0, 8, 0, 3, 0, 0, 1>>,
                   <<7, 0, 0, 0, 2, 0, 0, 0, 6>>,
                   <<0, 6, 0, 0, 0, 0, 2, 8, 0>>,
                   <<0, 0, 0, 4, 1, 9, 0, 0, 5>>,
                   <<0, 0, 0, 0, 8, 0, 0, 7, 9>> >>
    IN  [r \in Idx |-> [c \in Idx |-> rows[r + 1][c + 1]]]

\* two valid filled grids: the grid of the unshuffled numbers and its rotation
SolveBases ==
    { SeedGrid([k \in Idx |-> k + 1]),
      rotate_90_degrees(SeedGrid([k \in Idx |-> k + 1])) }

\* <<row, column>> cells that are blanked
Pool == (0 .. (PoolRows - 1)) \X {0, 3, 6}

Blank(s, cells) ==
    [r \in Idx |-> [c \in Idx |-> IF <<r, c>> \in cells THEN 0 ELSE s[r][c]]]

\* a base grid with some cells of the pool blanked
BlankedGrids == { Blank(B, cells) : B \in SolveBases, cells \in SUBSET Pool }

\* a blanked grid with the cell of row 0, column 0 or of row 0, column 1
\* given as 1 or 2
PokedGrids ==
    { [g EXCEPT ![0][c] = v] : g \in BlankedGrids, c \in {0, 1}, v \in {1, 2} }

\* a base grid with the cell of row 0, column 3 blanked and its number given
\* a second time in the same subgrid, at row 1, column 4
ClashGrids ==
    { [Blank(B, {<<0, 3>>}) EXCEPT ![1][4] = B[0][3]] : B \in SolveBases }

SolverInputs == BlankedGrids \cup PokedGrids \cup ClashGrids \cup {ReferenceGrid}

InitSolve ==
    /\ sudoku_check \in SolverInputs
    /\ sudoku_to_solve = ZeroGrid
    /\ all_empty_loc = <<>> /\ scan_j = 0 /\ found = FALSE /\ i = -1
    /\ spc = "clone" /\ solved = FALSE /\ run = 1 /\ first_solved = FALSE
    /\ GenIdle /\ CarveIdle /\ PureIdle

NextSolve ==
    \/ SolveClone
    \/ PassBegin
    \/ ScanCell
    \/ PassEnd
    \/ ClearFirst
    \/ BacktrackStep
    \/ FinalCheck
    \/ SolveAgain

SpecSolve == InitSolve /\ [][NextSolve]_vars

\* one call of solve_sudoku
NextSolveOnce ==
    \/ SolveClone
    \/ PassBegin
    \/ ScanCell
    \/ PassEnd
    \/ ClearFirst
    \/ BacktrackStep
    \/ FinalCheck

\* solve_sudoku is sequential code: while a step of it can be taken, one is
SpecSolveFair == InitSolve /\ [][NextSolveOnce]_vars /\ WF_vars(NextSolveOnce)

----------------------------------------------------------------------------
(* generate_sudoku_to_solve *)

\* num_to_delete is drawn from 0..MaxDelete
MaxDelete == 1

\* let mut sudoku_to_solve = filled_sudoku.clone(); let mut num_deleted = 0
CarveClone ==
    /\ cpc = "clone"
    /\ carved' = filled_sudoku
    /\ num_deleted' = 0
    /\ cpc' = "loop"
    /\ UNCHANGED <<filled_sudoku, num_to_delete, xco, yco, old_val, attempt_from>>
    /\ UNCHANGED <<genVars, solveVars, pureVars>>

\* the head of the loop with <= for <: one removal too many
CarveLoopHeadOffByOne ==
    /\ cpc = "loop"
    /\ IF num_deleted <= num_to_delete
       THEN /\ old_val' = 0 /\ xco' = 0 /\ yco' = 0
            /\ cpc' = "draw"
       ELSE /\ cpc' = "returned"
            /\ UNCHANGED <<old_val, xco, yco>>
    /\ UNCHANGED <<filled_sudoku, carved, num_to_delete, num_deleted, attempt_from>>
    /\ UNCHANGED <<genVars, solveVars, pureVars>>

\* while num_deleted < num_to_delete: the body's locals are reset, or the
\* grid is returned
CarveLoopHead ==
    /\ cpc = "loop"
    /\ IF num_deleted < num_to_delete
       THEN /\ old_val' = 0 /\ xco' = 0 /\ yco' = 0
            /\ cpc' = "draw"
       ELSE /\ cpc' = "returned"
            /\ UNCHANGED <<old_val, xco, yco>>
    /\ UNCHANGED <<filled_sudoku, carved, num_to_delete, num_deleted, attempt_from>>
    /\ UNCHANGED <<genVars, solveVars, pureVars>>

\* the inner loop with a retry cap of one draw: a zero cell drawn makes
\* generate_sudoku_to_solve return the grid as it is
CarveDrawGivesUp ==
    /\ cpc = "draw"
    /\ \E x \in generate_random_number(0, N), y \in generate_random_number(0, N) :
          /\ xco' = x
          /\ yco' = y
          /\ IF carved[y][x] # 0
             THEN /\ old_val' = carved[y][x]
                  /\ attempt_from' = carved
                  /\ carved' = [carved EXCEPT ![y][x] = 0]
                  /\ sudoku_check' = [carved EXCEPT ![y][x] = 0]
                  /\ spc' = "clone"
                  /\ cpc' = "solving"
             ELSE /\ cpc' = "returned"
                  /\ UNCHANGED <<old_val, attempt_from, carved, sudoku_check, spc>>
    /\ UNCHANGED <<filled_sudoku, num_to_delete, num_deleted>>
    /\ UNCHANGED <<sudoku_to_solve, all_empty_loc, scan_j, found, i, solved, run, first_solved>>
    /\ UNCHANGED <<genVars, pureVars>>

\* one pass of the inner loop: a cell is drawn; a non-zero cell is blanked and
\* solve_sudoku is called on the grid, a zero cell leads to another draw
CarveDraw ==
    /\ cpc = "draw"
    /\ \E x \in generate_random_number(0, N), y \in generate_random_number(0, N) :
          /\ xco' = x
          /\ yco' = y
          /\ IF carved[y][x] # 0
             THEN /\ old_val' = carved[y][x]
                  /\ attempt_from' = carved
                  /\ carved' = [carved EXCEPT ![y][x] = 0]
                  /\ sudoku_check' = [carved EXCEPT ![y][x] = 0]
                  /\ spc' = "clone"
                  /\ cpc' = "solving"
             ELSE UNCHANGED <<old_val, attempt_from, carved, sudoku_check, spc, cpc>>
    /\ UNCHANGED <<filled_sudoku, num_to_delete, num_deleted>>
    /\ UNCHANGED <<sudoku_to_solve, all_empty_loc, scan_j, found, i, solved, run, first_solved>>
    /\ UNCHANGED <<genVars, pureVars>>

\* the return of solve_sudoku without the reset: after a verdict of false the
\* cell stays blank and the removal is not counted
CarveAfterSolveNoReset ==
    /\ cpc = "solving" /\ spc = "done"
    /\ IF ~solved
       THEN UNCHANGED <<carved, num_deleted>>
       ELSE /\ num_deleted' = num_deleted + 1
            /\ UNCHANGED carved
    /\ cpc' = "loop"
    /\ spc' = "idle"
    /\ UNCHANGED <<filled_sudoku, num_to_delete, xco, yco, old_val, attempt_from>>
    /\ UNCHANGED <<sudoku_check, sudoku_to_solve, all_empty_loc, scan_j, found, i, solved,
                   run, first_solved>>
    /\ UNCHANGED <<genVars, pureVars>>

\* solve_sudoku has returned: the value is put back, or the removal counted
CarveAfterSolve ==
    /\ cpc = "solving" /\ spc = "done"
    /\ IF ~solved
       THEN /\ carved' = [carved EXCEPT ![yco][xco] = old_val]
            /\ UNCHANGED num_deleted
       ELSE /\ num_deleted' = num_deleted + 1
            /\ UNCHANGED carved
    /\ cpc' = "loop"
    /\ spc' = "idle"
    /\ UNCHANGED <<filled_sudoku, num_to_delete, xco, yco, old_val, attempt_from>>
    /\ UNCHANGED <<sudoku_check, sudoku_to_solve, all_empty_loc, scan_j, found, i, solved,
                   run, first_solved>>
    /\ UNCHANGED <<genVars, pureVars>>

\* solve_sudoku called on the grid generate_sudoku_to_solve returned
SolveReturned ==
    /\ cpc = "returned"
    /\ sudoku_check' = carved
    /\ spc' = "clone"
    /\ cpc' = "recheck"
    /\ UNCHANGED <<filled_sudoku, carved, num_to_delete, num_deleted, xco, yco, old_val,
                   attempt_from>>
    /\ UNCHANGED <<sudoku_to_solve, all_empty_loc, scan_j, found, i, solved, run, first_solved>>
    /\ UNCHANGED <<genVars, pureVars>>

\* the grid of the unshuffled numbers; the same grid with the 3 of row 0,
\* column 2 replaced by a second 2 (filled, but not valid); and the same grid
\* with the cell of row 4, column 4 already blank; and the grid without any
\* number, from which nothing can be removed
CarveInputs ==
    { SeedGrid([k \in Idx |-> k + 1]),
      [SeedGrid([k \in Idx |-> k + 1]) EXCEPT ![0][2] = 2],
      [SeedGrid([k \in Idx |-> k + 1]) EXCEPT ![4][4] = 0],
      ZeroGrid }

\* the grid without any number is carved only with more removals asked for
\* than it has numbers
InitCarve ==
    /\ filled_sudoku \in CarveInputs
    /\ num_to_delete \in 0 .. MaxDelete
    /\ filled_sudoku = ZeroGrid => num_to_delete > 0
    /\ carved = ZeroGrid /\ num_deleted = 0
    /\ xco = 0 /\ yco = 0 /\ old_val = 0 /\ cpc = "clone"
    /\ attempt_from = ZeroGrid
    /\ GenIdle /\ SolveIdle /\ PureIdle

NextCarve ==
    \/ CarveClone
    \/ CarveLoopHead
    \/ CarveDraw
    \/ CarveAfterSolve
    \/ SolveReturned
    \/ SolveClone
    \/ PassBegin
    \/ ScanCell
    \/ PassEnd
    \/ ClearFirst
    \/ BacktrackStep
    \/ FinalCheck

SpecCarve == InitCarve /\ [][NextCarve]_vars

----------------------------------------------------------------------------
(* Single calls of is_loc_valid and get_all_missing_numbers *)

\* the rows below `rows` and the columns right of `cols` blanked
Keep(s, rows, cols) ==
    [r \in Idx |-> [c \in Idx |-> IF r < rows /\ c < cols THEN s[r][c] ELSE 0]]

\* the grids the helpers are called on: a valid grid cut down to its first
\* rows and columns (the all-zero grid among them), the blanked grids of the
\* solver, and the valid grid with the cell of row 1, column 4 overwritten
PureGrids ==
    { Keep(SeedGrid([k \in Idx |-> k + 1]), rows, cols) :
         rows \in 0 .. N, cols \in 0 .. N }
    \cup BlankedGrids
    \cup { [SeedGrid([k \in Idx |-> k + 1]) EXCEPT ![1][4] = v] : v \in 1 .. 9 }

InitPure ==
    /\ pgrid \in PureGrids
    /\ pxco \in Idx /\ pyco \in Idx
    /\ pvec = <<>> /\ pres = FALSE /\ ppc = "input"
    /\ GenIdle /\ SolveIdle /\ CarveIdle

\* is_loc_valid(&pgrid, pxco, pyco)
CallIsLocValid ==
    /\ ppc = "input"
    /\ pres' = is_loc_valid(pgrid, pxco, pyco)
    /\ ppc' = "is_loc_valid"
    /\ UNCHANGED <<pgrid, pxco, pyco, pvec>>
    /\ UNCHANGED <<genVars, solveVars, carveVars>>

\* get_all_missing_numbers(&pgrid, pxco, pyco)
CallGetAllMissingNumbers ==
    /\ ppc = "input"
    /\ pres' = get_all_missing_numbers(pgrid, pxco, pyco)
    /\ ppc' = "get_all_missing_numbers"
    /\ UNCHANGED <<pgrid, pxco, pyco, pvec>>
    /\ UNCHANGED <<genVars, solveVars, carveVars>>

NextPure ==
    \/ CallIsLocValid
    \/ CallGetAllMissingNumbers

SpecPure == InitPure /\ [][NextPure]_vars

----------------------------------------------------------------------------
(* Single calls of find_missing_numbers *)

\* how many leading entries of the vector take every value of 0..9
MaxFree == 3

\* the ways the vector goes on after its leading entries: empty cells only,
\* the numbers 4..9 ascending, the same descending, one number repeated
VecTails ==
    { [k \in 1 .. N |-> 0],
      [k \in 1 .. N |-> IF k <= 3 THEN 0 ELSE k],
      [k \in 1 .. N |-> IF k <= 3 THEN 0 ELSE 13 - k],
      [k \in 1 .. N |-> 5] }

\* the vectors find_missing_numbers is called on: N entries of 0..9
PureVecs ==
    { [k \in 1 .. N |-> IF k <= MaxFree THEN head[k] ELSE tail[k]] :
         head \in [1 .. MaxFree -> 0 .. 9], tail \in VecTails }

InitVec ==
    /\ pvec \in PureVecs
    /\ pgrid = ZeroGrid /\ pxco = 0 /\ pyco = 0
    /\ pres = FALSE /\ ppc = "input"
    /\ GenIdle /\ SolveIdle /\ CarveIdle

\* find_missing_numbers(&pvec)
CallFindMissingNumbers ==
    /\ ppc = "input"
    /\ pres' = find_missing_numbers(pvec)
    /\ ppc' = "find_missing_numbers"
    /\ UNCHANGED <<pgrid, pxco, pyco, pvec>>
    /\ UNCHANGED <<genVars, solveVars, carveVars>>

NextVec == CallFindMissingNumbers

SpecVec == InitVec /\ [][NextVec]_vars

----------------------------------------------------------------------------
(* Claims about the generator and the transform engine *)

\* every row, every column and each of the nine subgrids holds each of 1..9
\* (and so no cell is 0), stated on the cells
IsValidFilled(s) ==
    /\ \A r \in Idx : { s[r][c] : c \in Idx } = 1 .. 9
    /\ \A c \in Idx : { s[r][c] : r \in Idx } = 1 .. 9
    /\ \A br, bc \in 0 .. 2 :
          { s[3 * br + dr][3 * bc + dc] : dr \in 0 .. 2, dc \in 0 .. 2 } = 1 .. 9

\* C1: whatever the shuffle and the random choices, the grid
\* generate_full_sudoku returns passes check_if_sudoku_solved: no cell is 0 and
\* every row, column and subgrid holds each of 1..9.
C1_GeneratedGridIsSolved ==
    gpc = "done" => (check_if_sudoku_solved(sudoku) /\ IsValidFilled(sudoku))

\* a generated grid that went through the 180 degree branch of random_rotate
C1_Witness ==
    gpc = "done" /\ rot_num = 2 /\ check_if_sudoku_solved(sudoku)

\* C6: a single in-band row swap, in-band column swap, band swap or rotation
\* of a grid that passes check_if_sudoku_solved yields a grid that passes it:
\* from valid grids on, every grid a transform yields passes.
C6_TransformKeepsSolved ==
    gpc = "transform" => check_if_sudoku_solved(sudoku)

\* a valid grid reached by rotate_270_degrees after another transform
C6_Witness ==
    /\ gpc = "transform" /\ gk = 2 /\ tlast = "rotate_270_degrees"
    /\ check_if_sudoku_solved(sudoku)

\* C7: in the state where random_rotate is called, each of the four draws
\* 0, 1, 2, 3 (no rotation, 90, 180, 270 degrees) is a possible outcome.
C7_AllFourRotationsPossible ==
    gpc = "random_rotate" =>
        \A r \in 0 .. 3 : ENABLED (RandomRotate /\ rot_num' = r)

----------------------------------------------------------------------------
(* Claims about solve_sudoku *)

\* every non-zero cell of g has the same value in h
Agrees(g, h) == \A r, c \in Idx : g[r][c] # 0 => h[r][c] = g[r][c]

\* the values that occur neither in row r, nor in column c, nor in the
\* subgrid of the cell in row r and column c
Candidates(g, r, c) ==
    (1 .. 9) \ ( { g[r][k] : k \in Idx }
                 \cup { g[k][c] : k \in Idx }
                 \cup { g[3 * (r \div 3) + dr][3 * (c \div 3) + dc] :
                           dr \in 0 .. 2, dc \in 0 .. 2 } )

EmptyCells(g) == { rc \in Idx \X Idx : g[rc[1]][rc[2]] = 0 }

\* g has a valid completion: a grid with every row, column and subgrid
\* holding each of 1..9 that agrees with g on its non-zero cells
RECURSIVE Completable(_)
Completable(g) ==
    IF EmptyCells(g) = {}
    THEN IsValidFilled(g)
    ELSE LET rc == CHOOSE x \in EmptyCells(g) :
                      \A y \in EmptyCells(g) :
                         Cardinality(Candidates(g, x[1], x[2]))
                            <= Cardinality(Candidates(g, y[1], y[2]))
         IN  \E v \in Candidates(g, rc[1], rc[2]) :
                Completable([g EXCEPT ![rc[1]][rc[2]] = v])

\* C3: on a grid that has a valid completion solve_sudoku returns true.
C3_SolvableGivesTrue ==
    (spc = "done" /\ Completable(sudoku_check)) => solved = TRUE

\* a call that went through the backtracking loop over several cells on a
\* grid with a valid completion
C3_Witness ==
    /\ spc = "done" /\ solved = TRUE
    /\ Len(all_empty_loc) > 2
    /\ Completable(sudoku_check)

\* C4: when solve_sudoku returns true the grid it holds is a solved grid
\* that agrees with the input on every non-zero cell of the input, the cell
\* of row 0 and column 0 included.
C4_TrueMeansInputSolved ==
    (spc = "done" /\ solved = TRUE) =>
        (IsValidFilled(sudoku_to_solve) /\ Agrees(sudoku_check, sudoku_to_solve))

\* C8: the second call of solve_sudoku on the same grid returns what the
\* first returned, whichever candidates the passes read first, and no step
\* of either call changes the caller's grid.
C8_SolveDeterministic ==
    /\ []((spc = "done" /\ run = 2) => solved = first_solved)
    /\ [][sudoku_check' = sudoku_check]_vars

\* the second call finished after a backtracking loop over several cells
C8_Witness ==
    /\ spc = "done" /\ run = 2 /\ solved = first_solved
    /\ Len(all_empty_loc) > 2

\* C9: on the reference example grid solve_sudoku returns true, and its
\* completed grid has 3 at row 0, column 1 and each of 1..9 once in every
\* row, column and subgrid.
C9_ReferenceGridSolved ==
    (spc = "done" /\ sudoku_check = ReferenceGrid) =>
        /\ solved = TRUE
        /\ sudoku_to_solve[0][1] = 3
        /\ IsValidFilled(sudoku_to_solve)
        /\ Agrees(ReferenceGrid, sudoku_to_solve)

\* the call on the reference grid has returned
C9_Witness ==
    spc = "done" /\ sudoku_check = ReferenceGrid /\ solved = TRUE

----------------------------------------------------------------------------
(* Claims about generate_sudoku_to_solve *)

NumZero(g) == Cardinality(EmptyCells(g))

\* C2: given a filled valid grid and K >= 0, the grid
\* generate_sudoku_to_solve returns has exactly K cells equal to 0, and
\* solve_sudoku called on it returns true.
C2_CarvedGridHasKZerosAndSolves ==
    IsValidFilled(filled_sudoku) =>
        /\ cpc \in {"returned", "recheck"} => NumZero(carved) = num_to_delete
        /\ (cpc = "recheck" /\ spc = "done") => solved = TRUE

\* a grid returned after one removal, and solved by solve_sudoku
C2_Witness ==
    /\ IsValidFilled(filled_sudoku)
    /\ cpc = "recheck" /\ spc = "done" /\ solved = TRUE
    /\ num_to_delete = 1 /\ NumZero(carved) = 1

----------------------------------------------------------------------------
(* Claims about the constraint checker *)

\* no two cells of the set hold the same non-zero value
NoDuplicate(g, cells) ==
    \A p, q \in cells : (p # q /\ g[p[1]][p[2]] # 0) => g[p[1]][p[2]] # g[q[1]][q[2]]

RowCells(r) == {r} \X Idx

ColumnCells(c) == Idx \X {c}

\* the <<row, column>> cells of the subgrid that contains row r, column c
SubgridCells(r, c) ==
    ((3 * (r \div 3)) .. (3 * (r \div 3) + 2)) \X ((3 * (c \div 3)) .. (3 * (c \div 3) + 2))

\* C5: is_loc_valid(grid, col, row) is true iff the row of the cell, the
\* column of the cell and the subgrid that contains the cell each have no two
\* equal non-zero entries.
C5_LocValidIffNoDuplicates ==
    ppc = "is_loc_valid" =>
        (pres <=> /\ NoDuplicate(pgrid, RowCells(pyco))
                  /\ NoDuplicate(pgrid, ColumnCells(pxco))
                  /\ NoDuplicate(pgrid, SubgridCells(pyco, pxco)))

\* C10: get_all_missing_numbers(grid, col, row) returns exactly the values of
\* 1..9 that occur neither in the row, nor in the column, nor in the subgrid
\* that contains the cell; on the all-zero grid that is all of 1..9.
C10_MissingNumbersExact ==
    ppc = "get_all_missing_numbers" =>
        /\ pres = Candidates(pgrid, pyco, pxco)
        /\ pgrid = ZeroGrid => pres = 1 .. 9

\* a call on a cell outside the diagonal subgrids of a partly filled grid,
\* with some but not all values missing
C10_Witness ==
    /\ ppc = "get_all_missing_numbers"
    /\ pxco \div 3 # pyco \div 3
    /\ pgrid # ZeroGrid
    /\ pres # {} /\ pres # 1 .. 9
    /\ pres = Candidates(pgrid, pyco, pxco)

----------------------------------------------------------------------------
(* Claims about find_missing_numbers *)

\* the non-zero values of a vector
NonZeroValues(vec) == { v \in Range(vec) : v # 0 }

\* C11: for a vector of 9 entries with values in 0..9, the result of
\* find_missing_numbers is strictly ascending (so without repeats), shares no
\* value with the non-zero values of the vector, and together with them is
\* exactly 1..9
C11_MissingNumbersAscendingComplement ==
    ppc = "find_missing_numbers" =>
        /\ Len(pvec) = 9 /\ Range(pvec) \subseteq 0 .. 9
        /\ \A k \in 1 .. (Len(pres) - 1) : pres[k] < pres[k + 1]
        /\ Range(pres) \cap NonZeroValues(pvec) = {}
        /\ Range(pres) \cup NonZeroValues(pvec) = 1 .. 9

\* a call on a vector that holds empty cells, a repeated number and a 9, with
\* more than one number missing
C11_Witness ==
    /\ ppc = "find_missing_numbers"
    /\ 0 \in Range(pvec) /\ 9 \in Range(pvec)
    /\ \E j, k \in 1 .. N : j # k /\ pvec[j] = pvec[k] /\ pvec[j] # 0
    /\ Len(pres) > 1

----------------------------------------------------------------------------
(* Claims about the loops of solve_sudoku *)

\* the cell of the working grid at an entry <<column, row>> of the list
CellAt(loc) == sudoku_to_solve[loc[2]][loc[1]]

\* the propagation loop has been left: the last pass filled none of the cells
\* it listed, and no empty cell has exactly one candidate
StoppedAfterIdlePass ==
    /\ ~found
    /\ \A k \in 1 .. Len(all_empty_loc) :
          /\ CellAt(all_empty_loc[k]) = 0
          /\ ~naked_single(get_all_missing_numbers(sudoku_to_solve,
                                all_empty_loc[k][1], all_empty_loc[k][2]))

\* the backtracking loop has been left: the cursor is on the last empty cell,
\* whose value is_loc_valid accepts, or it has retreated below the first cell
SearchEnded ==
    \/ /\ i = Len(all_empty_loc) - 1
       /\ CellAt(all_empty_loc[i + 1]) \in 1 .. 9
       /\ is_loc_valid(sudoku_to_solve, all_empty_loc[i + 1][1], all_empty_loc[i + 1][2])
    \/ /\ i < -1
       /\ \A k \in 1 .. Len(all_empty_loc) : CellAt(all_empty_loc[k]) = 0

\* C12: every call of solve_sudoku returns, on grids with conflicting givens
\* too; the propagation loop is left after a pass that filled no cell, and the
\* backtracking loop is left either with the cursor on the last empty cell
\* holding a value is_loc_valid accepts or with the cursor below the first cell
C12_SolveTerminates ==
    /\ (spc = "clone") ~> (spc = "done")
    /\ [](spc = "clear" => StoppedAfterIdlePass)
    /\ [](spc = "check" => SearchEnded)

\* a call on a grid that cannot be completed has returned after the search
\* went through more than one empty cell and retreated below the first
C12_Witness ==
    /\ spc = "done" /\ ~solved
    /\ i < -1
    /\ Len(all_empty_loc) > 1
    /\ ~Completable(sudoku_check)

\* C13: whenever the backtracking loop is about to index all_empty_loc, the
\* index i + 1 it will use lies in 0 .. len - 1; no step of the loop indexes
\* outside the list, and the loop is left with the cursor at -2 or on the
\* last empty cell
C13_CursorInRange ==
    /\ spc # "panic"
    /\ spc = "search" => 0 <= i + 1 /\ i + 1 < Len(all_empty_loc)
    /\ spc = "check" => i = -2 \/ i = Len(all_empty_loc) - 1

\* the search has retreated by two from the second empty cell: the cursor is
\* at -1, the loop goes on, and the first empty cell, which it will index
\* next, still holds the value that was accepted there
C13_Witness ==
    /\ spc = "search" /\ i = -1
    /\ Len(all_empty_loc) > 1
    /\ CellAt(all_empty_loc[1]) \in 1 .. 9
    /\ is_loc_valid(sudoku_to_solve, all_empty_loc[1][1], all_empty_loc[1][2])
    /\ CellAt(all_empty_loc[2]) = 0

----------------------------------------------------------------------------
(* Claims about the carving loop *)

\* C14: for an input without empty cells, whenever generate_sudoku_to_solve
\* is at the head of its while loop, each cell of the working grid is 0 or
\* the input's cell, the number of 0 cells is num_deleted, and after a
\* removal that solve_sudoku answered with false the working grid is the
\* grid the attempt started from
C14_CarveLoopHeadInvariant ==
    (cpc = "loop" /\ NumZero(filled_sudoku) = 0) =>
        /\ \A r, c \in Idx : carved[r][c] = 0 \/ carved[r][c] = filled_sudoku[r][c]
        /\ NumZero(carved) = num_deleted
        /\ (old_val # 0 /\ ~solved) => carved = attempt_from

\* the loop head after a removal that solve_sudoku answered with false: the
\* cell that was blanked holds its number again
C14_Witness ==
    /\ cpc = "loop" /\ NumZero(filled_sudoku) = 0
    /\ old_val # 0 /\ ~solved
    /\ sudoku_check[yco][xco] = 0
    /\ carved[yco][xco] = old_val

\* the number of non-zero cells of a grid
NumNonZero(g) == N * N - NumZero(g)

\* C15: generate_sudoku_to_solve returns only with num_deleted equal to
\* num_to_delete, each removal counted being a non-zero cell of the input
\* turned into 0; so with num_to_delete above the number of non-zero cells of
\* the input the loop condition stays true and the function never returns
C15_NeverReturnsWhenKTooLarge ==
    /\ cpc \in {"returned", "recheck"} =>
          /\ num_deleted = num_to_delete
          /\ num_deleted = NumZero(carved) - NumZero(filled_sudoku)
    /\ num_to_delete > NumNonZero(filled_sudoku) =>
          /\ cpc \notin {"returned", "recheck"}
          /\ num_deleted < num_to_delete

\* more removals asked for than the input has numbers: the inner loop has
\* drawn a cell, found it empty and is drawing again
C15_Witness ==
    /\ num_to_delete > NumNonZero(filled_sudoku)
    /\ cpc = "draw"
    /\ xco = 5 /\ yco = 7
    /\ carved[yco][xco] = 0
    /\ num_deleted = 0

====
